---- MODULE Spec2Model ----
(***************************************************************************)
(* ghost_net: TransmissionHandler (src/src/lib/transmission.js), GhostNet  *)
(* (src/unnamed/part_001) and PeerNetwork (src/unnamed/part_002).          *)
(*                                                                         *)
(* Numbers of the program in [0,1] are kept in thousandths (1000 = 1.0).   *)
(* An HMAC / hash is modelled as the record of its inputs (an ideal,       *)
(* collision-free hash); random bytes are a choice from a small set.       *)
(* A call that raises is the record Throws; "true"/"false"/"throws" are    *)
(* the three outcomes of a boolean function that may raise.                *)
(***************************************************************************)
EXTENDS Integers, Sequences, FiniteSets, TLC

VARIABLES
  config,             \* the config object handed to the constructors
  now,                \* Date.now()
  identity,           \* this.identity
  \* ---- TransmissionHandler
  pending,            \* transmissionBuffers.pending  (Map, insertion order)
  verified,           \* transmissionBuffers.verified
  archived,           \* transmissionBuffers.archived
  totalTransmissions, \* metrics.totalTransmissions
  metrics,            \* metrics.signalStrength (newest first) and metrics.quantumIntegrity
  issued,             \* transmissions returned by createTransmission
  txLast,             \* outcome of the last TransmissionHandler call
  \* ---- sign / verify of GhostNet, applied to drawn inputs
  sigLast,            \* outcome of the last sign / verify call
  \* ---- PeerNetwork
  sock,               \* per socket: claimed peer id, connection state
  pendingHandshakes,  \* this.pendingHandshakes
  peers,              \* this.peers
  activePeers,        \* routingTable.activePeers
  deadPeers,          \* routingTable.deadPeers
  routes,             \* routingTable.routes.get(identity.id)
  entanglementStrength, \* metrics.entanglementStrength
  connectedPeers,     \* metrics.connectedPeers
  netLast,            \* outcome of the last PeerNetwork handler
  inflight,           \* per socket: the message handlers begun and not yet finished
  \* ---- GhostNet
  gsock,              \* per socket of GhostNet's server: claimed peer id, state
  entanglements,      \* this.entanglements
  totalEntanglements, \* metrics.totalEntanglements
  ghostLast,          \* outcome of the last GhostNet handler
  life                \* the interval timers that run, and whether shutdown() has run

txVars == <<pending, verified, archived, totalTransmissions, metrics, issued, txLast>>
sigVars == <<sigLast>>
netVars == <<sock, pendingHandshakes, peers, activePeers, deadPeers, routes,
             entanglementStrength, connectedPeers, netLast>>
ghostVars == <<gsock, entanglements, totalEntanglements, ghostLast>>
vars == <<config, now, identity, inflight, life, txVars, sigVars, netVars, ghostVars>>

----------------------------------------------------------------------------
(* Bounds of the model *)
MaxTime == 3          \* the clock runs 1..MaxTime
MaxTx == 1            \* transmissions created in one run
MaxNoise == 1         \* random bytes are drawn from 0..MaxNoise

(* Values of the test configuration (a config that defines the keys read) *)
TestMaxTimeDelta == 1
TestArchiveAge == 1
TestMaxArchiveSize == 1
TestResonanceThreshold == 300
TestConnectionTimeout == 1
TestHandshakeTimeout == 1     \* config.peer.handshake.timeout, in clock steps

Undefined == [kind |-> "undefined"]
Throws == [kind |-> "throws"]
Num(n) == [kind |-> "number", n |-> n]

Noise == 0..MaxNoise
Times == 1..MaxTime
PeerIds == {"p1", "p2"}
Levels == {0, 500, 1000}

(* config.js exports no `quantum` section and no consciousness.resonanceThreshold: *)
(* this.config.quantum is undefined and so is resonanceThreshold.                   *)
ShippedConfig ==
  [quantum |-> Undefined,
   resonanceThreshold |-> Undefined,
   connectionTimeout |-> Num(TestConnectionTimeout)]

(* a config object that defines every key the classes read *)
FullConfig ==
  [quantum |-> [kind |-> "object",
                maxTimeDelta |-> TestMaxTimeDelta,
                archiveAge |-> TestArchiveAge,
                maxArchiveSize |-> TestMaxArchiveSize],
   resonanceThreshold |-> Num(TestResonanceThreshold),
   connectionTimeout |-> Num(TestConnectionTimeout)]

Configs == {ShippedConfig, FullConfig}

\* GhostNet._validateConfig(config): the config GhostNet keeps has the quantum
\* section, with the default replay window when the given config has none
ValidateConfig(c) ==
  IF c.quantum = Undefined THEN [c EXCEPT !.quantum = FullConfig.quantum] ELSE c

----------------------------------------------------------------------------
(* Resonance: _calculateResonance, in thousandths *)

Abs(x) == IF x < 0 THEN -x ELSE x

\* Math.sin(baseFrequency * Date.now()), sampled at the model's clock ticks
SinMilli(t) == CASE t % 4 = 0 -> 0
                 [] t % 4 = 1 -> 1000
                 [] t % 4 = 2 -> 0
                 [] OTHER -> -1000

HarmonicFactor(t) == (SinMilli(t) * 2) \div 10 + 800

\* Math.exp(-(now - birthTimestamp) / window): 1000 at age 0, decaying with age
RECURSIVE ExpMilli(_)
ExpMilli(age) == IF age <= 0 THEN 1000 ELSE (ExpMilli(age - 1) * 9) \div 10

TemporalFactor(t, birth) == ExpMilli(t - birth)

CalculateResonanceTx(local, remote, t, birth) ==
  LET baseResonance == 1000 - Abs(local - remote)
      harmonicFactor == HarmonicFactor(t)
      temporalFactor == TemporalFactor(t, birth)
  IN  ((((baseResonance * harmonicFactor) \div 1000) * temporalFactor) \div 1000 + 1000) \div 2

----------------------------------------------------------------------------
(* TransmissionHandler *)

\* content handed to createTransmission: a string, or a value Buffer.from rejects
RawContents ==
  { [kind |-> "string", text |-> s, html |-> FALSE, gz |-> FALSE] : s \in {"", "a"} }
  \cup { [kind |-> "null", text |-> "", html |-> FALSE, gz |-> FALSE] }

\* marked(content): markdown to HTML; the empty string stays empty
Marked(c) == [c EXCEPT !.html = (c.text # "")]
Gzip(c) == [c EXCEPT !.gz = TRUE]

\* _compressTransmission
CompressTransmission(content) ==
  IF content.kind # "string" THEN Throws ELSE Gzip(Marked(content))

\* _decompressTransmission: ungzip(...).toString()
DecompressTransmission(compressed) ==
  IF compressed.kind = "string" /\ compressed.gz
    THEN [compressed EXCEPT !.gz = FALSE]
    ELSE Throws

\* a consciousness argument: the object {level, resonance}, or a bare number
ConsObj(l, r) == [isObj |-> TRUE, level |-> l, resonance |-> r]
ConsNum(l) == [isObj |-> FALSE, level |-> l, resonance |-> 0]

\* _generateQuantumSignature(content, consciousness); noise is randomBytes(16)
GenerateQuantumSignatureTx(content, consciousness, noise) ==
  IF content.kind # "string" THEN Throws            \* Buffer.from(content) raises
  ELSE IF ~consciousness.isObj THEN Throws          \* consciousness.level is undefined
  ELSE [kind |-> "tag", key |-> identity.id, content |-> content,
        level |-> consciousness.level, resonance |-> consciousness.resonance,
        noise |-> noise]

\* _verifyQuantumSignature(transmission): re-signs with fresh random bytes
VerifyQuantumSignatureTx(t, noise) ==
  LET reconstructedSignature ==
        GenerateQuantumSignatureTx(t.content, t.consciousness, noise)
  IN  IF reconstructedSignature = Throws THEN "throws"
      ELSE IF t.signature = reconstructedSignature THEN "true"
      ELSE "false"

\* _encryptTransmission: {data: HMAC digest, iv, consciousness}
EncryptTransmission(t, noise) ==
  [kind |-> "encrypted", id |-> t.id, consciousness |-> t.consciousness,
   iv |-> noise]

\* _decryptTransmission: JSON.parse of an HMAC digest's bytes; a transmission
\* object carries no data / iv, and Buffer.from(undefined, 'hex') raises
DecryptTransmission(t) == Throws

\* the MapSet of a JS Map kept as a sequence of entries in insertion order
MapHas(m, id) == \E i \in 1..Len(m) : m[i].id = id
MapSet(m, e) ==
  IF MapHas(m, e.id)
    THEN [i \in 1..Len(m) |-> IF m[i].id = e.id THEN e ELSE m[i]]
    ELSE Append(m, e)
MapDelete(m, id) == SelectSeq(m, LAMBDA e : e.id # id)
MapIds(m) == {m[i].id : i \in 1..Len(m)}

\* _storeTransmission(decrypted)
StoreTransmission(decrypted) == MapSet(verified, decrypted)

\* metrics.signalStrength is a Float32Array(SignalSamples), all zero at first;
\* the model keeps the samples written so far, newest first
SignalSamples == 100

Sample(samples, i) == IF i + 1 <= Len(samples) THEN samples[i + 1] ELSE 0

\* Math.exp(-delta * 10) for a delta in thousandths
ExpNeg10Milli(delta) ==
  CASE delta = 0 -> 1000
    [] delta <= 100 -> 367
    [] delta <= 500 -> 6
    [] OTHER -> 0

\* _calculateQuantumIntegrity()
RECURSIVE IntegritySum(_, _)
IntegritySum(samples, i) ==
  IF i < 1 THEN 0
  ELSE IntegritySum(samples, i - 1)
         + ExpNeg10Milli(Abs(Sample(samples, i) - Sample(samples, i - 1)))

CalculateQuantumIntegrity(samples) ==
  IntegritySum(samples, SignalSamples - 1) \div (SignalSamples - 1)

\* _updateMetrics('transmission_created', transmission): copyWithin(1, 0), then
\* signalStrength[0] = transmission.consciousness
MetricsCreated(m, level) ==
  LET shifted == <<level>> \o m.signalStrength
  IN  [m EXCEPT !.signalStrength =
         IF Len(shifted) > SignalSamples THEN SubSeq(shifted, 1, SignalSamples)
         ELSE shifted]

\* _updateMetrics('maintenance_cycle')
MetricsMaintenance(m) ==
  [m EXCEPT !.quantumIntegrity = CalculateQuantumIntegrity(m.signalStrength)]

TxInit ==
  /\ pending = <<>>
  /\ verified = <<>>
  /\ archived = <<>>
  /\ totalTransmissions = 0
  /\ metrics = [signalStrength |-> <<>>, quantumIntegrity |-> 1000]
  /\ issued = <<>>
  /\ txLast = [op |-> "none"]

\* how a createTransmission call ends: it rejects when a step of its try
\* block raises
CreateOutcome(content, consciousness, noise) ==
  IF \/ GenerateQuantumSignatureTx(content, consciousness, noise) = Throws
     \/ CompressTransmission(content) = Throws
    THEN "rejects" ELSE "ok"

\* createTransmission counting the transmission before its content is compressed
CreateTransmission_CountsFirst(content, consciousness, noise) ==
  LET signature == GenerateQuantumSignatureTx(content, consciousness, noise)
      compressed == CompressTransmission(content)
      transmission ==
        [id |-> Len(issued) + 1,
         timestamp |-> now,
         consciousness |-> ConsNum(consciousness.level),
         resonance |-> consciousness.resonance,
         content |-> compressed,
         signature |-> signature,
         author |-> identity.id]
      encrypted == EncryptTransmission(transmission, noise)
  IN  /\ Len(issued) < MaxTx
      /\ totalTransmissions' = totalTransmissions + 1
      /\ IF signature = Throws \/ compressed = Throws
            THEN /\ txLast' = [op |-> "create", outcome |-> "rejects"]
                 /\ UNCHANGED <<pending, issued, metrics>>
            ELSE /\ pending' = MapSet(pending, encrypted)
                 /\ metrics' = MetricsCreated(metrics, transmission.consciousness.level)
                 /\ issued' = Append(issued, transmission)
                 /\ txLast' = [op |-> "create", outcome |-> "ok",
                               id |-> transmission.id]
      /\ UNCHANGED <<verified, archived>>
      /\ UNCHANGED <<config, now, identity, inflight, life, sigVars, netVars, ghostVars>>

\* createTransmission(content, identity, consciousness)
CreateTransmission(content, consciousness, noise) ==
  LET signature == GenerateQuantumSignatureTx(content, consciousness, noise)
      compressed == CompressTransmission(content)
      transmission ==
        [id |-> Len(issued) + 1,
         timestamp |-> now,
         consciousness |-> ConsNum(consciousness.level),
         resonance |-> consciousness.resonance,
         content |-> compressed,
         signature |-> signature,
         author |-> identity.id]
      encrypted == EncryptTransmission(transmission, noise)
  IN  /\ Len(issued) < MaxTx
      /\ IF CreateOutcome(content, consciousness, noise) = "rejects"
            THEN /\ txLast' = [op |-> "create", outcome |-> "rejects"]
                 /\ UNCHANGED <<pending, totalTransmissions, metrics, issued>>
            ELSE /\ pending' = MapSet(pending, encrypted)
                 /\ totalTransmissions' = totalTransmissions + 1
                 /\ metrics' = MetricsCreated(metrics, transmission.consciousness.level)
                 /\ issued' = Append(issued, transmission)
                 /\ txLast' = [op |-> "create", outcome |-> "ok",
                               id |-> transmission.id]
      /\ UNCHANGED <<verified, archived>>
      /\ UNCHANGED <<config, now, identity, inflight, life, sigVars, netVars, ghostVars>>

\* the body of processTransmission's try block: how the call ends and what it stores
ProcessOutcome_StoreUnverified(t, noise) ==
  LET content == DecompressTransmission(t.content)
  IN  IF content = Throws
        THEN [outcome |-> "rejects", store |-> FALSE, decrypted |-> t]
        ELSE [outcome |-> "ok", store |-> TRUE,
              decrypted |-> [t EXCEPT !.content = content]]

\* processTransmission accepting only while metrics.quantumIntegrity is 1
ProcessOutcome_IntegrityGate(t, noise) ==
  IF metrics.quantumIntegrity < 1000
    THEN [outcome |-> "rejects", store |-> FALSE, decrypted |-> t]
    ELSE ProcessOutcome_StoreUnverified(t, noise)

\* the gate of processTransmission: resonance > resonanceThreshold
\* (a comparison with undefined is false)
ResonanceSufficient(resonance, threshold) ==
  threshold.kind = "number" /\ resonance > threshold.n

ProcessOutcome(t, noise) ==
  LET rejected == [outcome |-> "rejects", store |-> FALSE, decrypted |-> t]
      sigOk == VerifyQuantumSignatureTx(t, noise)
      decrypted == DecryptTransmission(t)
      content == DecompressTransmission(decrypted.content)
      resonance == CalculateResonanceTx(identity.consciousnessLevel,
                                        decrypted.consciousness.level,
                                        now, identity.birthTimestamp)
      threshold == config.resonanceThreshold
  IN  IF sigOk # "true" THEN rejected
      ELSE IF decrypted = Throws THEN rejected
      ELSE IF content = Throws THEN rejected
      ELSE [outcome |-> "ok",
            store |-> ResonanceSufficient(resonance, threshold),
            decrypted |-> [decrypted EXCEPT !.content = content]]

\* what a peer can hand to processTransmission: a transmission as created, one
\* whose content was changed after signing, or one re-signed with the node id
\* (the HMAC key) over an object-valued consciousness
CompressedContents == {CompressTransmission(c) : c \in {r \in RawContents : r.kind = "string"}}

Forged(o, n) ==
  LET cons == ConsObj(o.consciousness.level, o.resonance)
  IN  [o EXCEPT !.consciousness = cons,
                !.signature = [kind |-> "tag", key |-> identity.id,
                               content |-> o.content, level |-> cons.level,
                               resonance |-> cons.resonance, noise |-> n]]

Incoming(o) ==
  {o} \cup {[o EXCEPT !.content = c] : c \in CompressedContents}
      \cup {Forged(o, n) : n \in Noise}
      \cup {[Forged(o, n) EXCEPT !.content = c] : n \in Noise, c \in CompressedContents}

\* processTransmission(transmission, peer)
ProcessTransmission(i, t, noise) ==
  LET r == ProcessOutcome(t, noise)
  IN  /\ verified' = IF r.store THEN StoreTransmission(r.decrypted) ELSE verified
      /\ txLast' = [op |-> "process", outcome |-> r.outcome, stored |-> r.store,
                    id |-> t.id, tampered |-> (t.content # issued[i].content),
                    forged |-> (t.signature # issued[i].signature)]
      /\ UNCHANGED <<pending, archived, totalTransmissions, metrics, issued>>
      /\ UNCHANGED <<config, now, identity, inflight, life, sigVars, netVars, ghostVars>>

\* _archiveOldTransmissions evicting the newest archive entry on overflow
ArchiveOldTransmissions_EvictNewest ==
  /\ config.quantum.kind = "object"
  /\ LET archiveThreshold == now - config.quantum.archiveAge
         old == SelectSeq(verified, LAMBDA e : e.timestamp < archiveThreshold)
         updated == archived \o SelectSeq(old, LAMBDA e : ~MapHas(archived, e.id))
         excess == Len(updated) - config.quantum.maxArchiveSize
     IN  /\ verified' = SelectSeq(verified, LAMBDA e : ~(e.timestamp < archiveThreshold))
         /\ archived' = IF excess > 0
                          THEN SubSeq(updated, 1, config.quantum.maxArchiveSize)
                          ELSE updated
  /\ metrics' = MetricsMaintenance(metrics)
  /\ txLast' = [op |-> "sweep", outcome |-> "ok"]
  /\ UNCHANGED <<pending, totalTransmissions, issued>>
  /\ UNCHANGED <<config, now, identity, inflight, life, sigVars, netVars, ghostVars>>

\* _archiveOldTransmissions without verified.delete(id)
ArchiveOldTransmissions_KeepsVerified ==
  /\ config.quantum.kind = "object"
  /\ LET archiveThreshold == now - config.quantum.archiveAge
         old == SelectSeq(verified, LAMBDA e : e.timestamp < archiveThreshold)
         updated == archived \o SelectSeq(old, LAMBDA e : ~MapHas(archived, e.id))
         excess == Len(updated) - config.quantum.maxArchiveSize
     IN  /\ verified' = verified
         /\ archived' = IF excess > 0
                          THEN SubSeq(updated, excess + 1, Len(updated))
                          ELSE updated
  /\ metrics' = MetricsMaintenance(metrics)
  /\ txLast' = [op |-> "sweep", outcome |-> "ok"]
  /\ UNCHANGED <<pending, totalTransmissions, issued>>
  /\ UNCHANGED <<config, now, identity, inflight, life, sigVars, netVars, ghostVars>>

\* the callback of the maintenance timer: _archiveOldTransmissions, then
\* _updateMetrics('maintenance_cycle') (the timer exists only when
\* config.quantum.maintenanceInterval could be read)
ArchiveOldTransmissions ==
  /\ config.quantum.kind = "object"
  /\ LET archiveThreshold == now - config.quantum.archiveAge
         old == SelectSeq(verified, LAMBDA e : e.timestamp < archiveThreshold)
         moved == archived \o SelectSeq(old, LAMBDA e : ~MapHas(archived, e.id))
         updated == [k \in 1..Len(moved) |->
                       IF MapHas(old, moved[k].id)
                         THEN (CHOOSE e \in {old[j] : j \in 1..Len(old)} : e.id = moved[k].id)
                         ELSE moved[k]]
         excess == Len(updated) - config.quantum.maxArchiveSize
     IN  /\ verified' = SelectSeq(verified, LAMBDA e : ~(e.timestamp < archiveThreshold))
         /\ archived' = IF excess > 0
                          THEN SubSeq(updated, excess + 1, Len(updated))
                          ELSE updated
  /\ metrics' = MetricsMaintenance(metrics)
  /\ txLast' = [op |-> "sweep", outcome |-> "ok"]
  /\ UNCHANGED <<pending, totalTransmissions, issued>>
  /\ UNCHANGED <<config, now, identity, inflight, life, sigVars, netVars, ghostVars>>

\* the clock advances
Tick ==
  /\ now < MaxTime
  /\ now' = now + 1
  /\ UNCHANGED <<config, identity, inflight, life, txVars, sigVars, netVars, ghostVars>>

----------------------------------------------------------------------------
(* GhostNet: message signatures (sign / verify) *)

NoPeerId == "<undefined>"          \* message.peerId is absent
Str(n) == [kind |-> "string", len |-> n]
HexLen == 64                       \* hex digits of a sha256 HMAC

\* GhostNet._generateQuantumSignature(): HMAC(identity.id, Date.now() ++ randomBytes(32))
GenerateQuantumSignature(id, t, noise) ==
  [kind |-> "hmac", key |-> id, data |-> <<t, noise>>]

\* the tag _verifyQuantumSignature recomputes: HMAC(message.peerId, message.timestamp)
VerifySignatureOf(message) ==
  [kind |-> "hmac", key |-> message.peerId, data |-> <<message.timestamp.n>>]

SigLen(s) == IF s.kind = "hmac" THEN HexLen ELSE s.len

\* _verifyQuantumSignature without the timestamp check
VerifyQuantumSignature_NoWindow(message) ==
  IF message.signature = Undefined \/ message.timestamp = Undefined THEN "false"
  ELSE IF config.quantum = Undefined THEN "throws"
  ELSE IF message.peerId = NoPeerId THEN "throws"
  ELSE IF SigLen(message.signature) # SigLen(VerifySignatureOf(message)) THEN "throws"
  ELSE IF message.signature = VerifySignatureOf(message) THEN "true"
  ELSE "false"

\* GhostNet._verifyQuantumSignature(message)
VerifyQuantumSignature(message) ==
  IF message.signature = Undefined \/ message.timestamp = Undefined THEN "false"
  \* this.config.quantum.maxTimeDelta with config.quantum undefined: TypeError
  ELSE IF config.quantum = Undefined THEN "throws"
  ELSE IF Abs(now - message.timestamp.n) > config.quantum.maxTimeDelta THEN "false"
  \* createHmac('sha256', undefined): TypeError
  ELSE IF message.peerId = NoPeerId THEN "throws"
  \* crypto.timingSafeEqual on buffers of different length: RangeError
  ELSE IF SigLen(message.signature) # SigLen(VerifySignatureOf(message)) THEN "throws"
  ELSE IF message.signature = VerifySignatureOf(message) THEN "true"
  ELSE "false"

\* signatures a message can carry
SigValues ==
  {Undefined, Str(3), Str(HexLen)}
    \cup {GenerateQuantumSignature(k, t, n) : k \in PeerIds, t \in Times, n \in Noise}
    \cup {[kind |-> "hmac", key |-> k, data |-> <<t>>] : k \in PeerIds, t \in Times}

Messages ==
  [signature : SigValues,
   timestamp : {Undefined} \cup {Num(t) : t \in Times},
   peerId : {"p1", NoPeerId}]

SigInit == sigLast = [op |-> "none"]

\* one call of _verifyQuantumSignature on a received message
VerifyMessage(message) ==
  /\ sigLast' = [op |-> "verify", message |-> message, at |-> now,
                 result |-> VerifyQuantumSignature(message)]
  /\ UNCHANGED <<config, now, identity, inflight, life, txVars, netVars, ghostVars>>

\* two calls of _generateQuantumSignature by the same node at the same instant
SignTwice(n1, n2) ==
  /\ sigLast' = [op |-> "sign2",
                 first |-> GenerateQuantumSignature(identity.id, now, n1),
                 second |-> GenerateQuantumSignature(identity.id, now, n2)]
  /\ UNCHANGED <<config, now, identity, inflight, life, txVars, netVars, ghostVars>>

\* a node with id `signer` signed a message at time t (as _broadcastQuantumPulse
\* does); the message, carrying the signer's id, is verified here
SignThenVerify(signer, t, noise) ==
  LET message == [signature |-> GenerateQuantumSignature(signer, t, noise),
                  timestamp |-> Num(t),
                  peerId |-> signer]
  IN  /\ t <= now
      /\ sigLast' = [op |-> "roundtrip", message |-> message, at |-> now,
                     result |-> VerifyQuantumSignature(message)]
      /\ UNCHANGED <<config, now, identity, inflight, life, txVars, netVars, ghostVars>>

\* TransmissionHandler: _generateQuantumSignature(content, consciousness), then
\* _verifyQuantumSignature on a transmission carrying that content, that
\* consciousness and the signature
TxSignThenVerify(content, consciousness, n1, n2) ==
  LET signature == GenerateQuantumSignatureTx(content, consciousness, n1)
      t == [content |-> content, consciousness |-> consciousness,
            signature |-> signature]
  IN  /\ signature # Throws
      /\ sigLast' = [op |-> "txroundtrip", transmission |-> t, at |-> now,
                     result |-> VerifyQuantumSignatureTx(t, n2)]
      /\ UNCHANGED <<config, now, identity, inflight, life, txVars, netVars, ghostVars>>

\* TransmissionHandler: _compressTransmission(content), then
\* _decompressTransmission on what it returned
CompressThenDecompress(content) ==
  LET compressed == CompressTransmission(content)
  IN  /\ sigLast' = [op |-> "codec", content |-> content,
                     result |-> IF compressed = Throws THEN Throws
                                ELSE DecompressTransmission(compressed)]
      /\ UNCHANGED <<config, now, identity, inflight, life, txVars, netVars, ghostVars>>

----------------------------------------------------------------------------
(* PeerNetwork *)

Sockets == {"s1", "s2"}          \* inbound connections in one run
Self == "self"
EmptyMap == [x \in {} |-> x]
MapPut(m, k, v) == [x \in DOMAIN m \cup {k} |-> IF x = k THEN v ELSE m[x]]
MapRemove(m, k) == [x \in DOMAIN m \ {k} |-> m[x]]

\* _calculateResonance without Math.abs on the consciousness delta
CalculateResonanceNet_NoAbs(localConsciousness, remoteConsciousness, t, birth) ==
  LET baseResonance == 1000 - (localConsciousness - remoteConsciousness)
      harmonicFactor == HarmonicFactor(t)
      temporalFactor == TemporalFactor(t, birth)
  IN  ((((baseResonance * harmonicFactor) \div 1000) * temporalFactor) \div 1000 + 1000) \div 2

\* PeerNetwork._calculateResonance
CalculateResonanceNet(localConsciousness, remoteConsciousness, t, birth) ==
  LET baseResonance == 1000 - Abs(localConsciousness - remoteConsciousness)
      harmonicFactor == HarmonicFactor(t)
      temporalFactor == TemporalFactor(t, birth)
  IN  ((((baseResonance * harmonicFactor) \div 1000) * temporalFactor) \div 1000 + 1000) \div 2

\* the PeerNetwork fields the handlers below read and write, as one record
NetState ==
  [peers |-> peers, activePeers |-> activePeers, deadPeers |-> deadPeers,
   routes |-> routes, entanglementStrength |-> entanglementStrength,
   connectedPeers |-> connectedPeers]

SetNetState(N) ==
  /\ peers' = N.peers
  /\ activePeers' = N.activePeers
  /\ deadPeers' = N.deadPeers
  /\ routes' = N.routes
  /\ entanglementStrength' = N.entanglementStrength
  /\ connectedPeers' = N.connectedPeers

\* the value NaN of a JS number
NaN == -1000000

\* this.metrics.entanglementStrength.get(route) || 0  (NaN is falsy)
StrengthOf(strength, p) ==
  IF p \in DOMAIN strength /\ strength[p] # NaN THEN strength[p] ELSE 0

\* _calculateQuantumLatency(route): the latency estimate of the route's entry, in ms
LatencyEstimate == [p \in {"p1", "p2", "p3"} |->
                      CASE p = "p1" -> 50 [] p = "p2" -> 30 [] OTHER -> 40]
CalculateQuantumLatency(route) ==
  IF route \in DOMAIN LatencyEstimate THEN LatencyEstimate[route] ELSE 0

\* the comparator of optimizeRoutes: negative when a ranks before b
RouteCompare(strength, a, b) ==
  LET strengthDiff == StrengthOf(strength, b) - StrengthOf(strength, a)
  IN  IF Abs(strengthDiff) > 100 THEN strengthDiff
      ELSE CalculateQuantumLatency(a) - CalculateQuantumLatency(b)

\* Array.prototype.sort with that comparator (stable insertion)
RECURSIVE SortRoutes(_, _)
SortRoutes(strength, list) ==
  IF Len(list) <= 1 THEN list
  ELSE LET front == SortRoutes(strength, SubSeq(list, 1, Len(list) - 1))
           x == list[Len(list)]
           \* x goes after the last element it does not rank before
           keep == {i \in 1..Len(front) : RouteCompare(strength, front[i], x) <= 0}
           k == IF keep = {} THEN 0 ELSE CHOOSE i \in keep : \A j \in keep : j <= i
       IN  SubSeq(front, 1, k) \o <<x>> \o SubSeq(front, k + 1, Len(front))

\* quantumRouter.optimizeRoutes()
OptimizeRoutes(N) ==
  [N EXCEPT !.routes = [k \in DOMAIN N.routes |->
                          SortRoutes(N.entanglementStrength, N.routes[k])]]

\* quantumRouter.findPath(targetPeerId): traverse(currentId, path, quantumStrength)
\* with its closure variables st = [paths, visited]; a path is kept as the
\* sequence that path.join('->') renders. st.expanded lists, for every call that
\* got past the visited check, the branch it is on: the nodes from this node to
\* currentId
RECURSIVE Traverse(_, _, _, _, _, _)
RECURSIVE TraversePeers(_, _, _, _, _, _)
RECURSIVE Traverse_VisitsTwice(_, _, _, _, _, _)

\* traverse that lets a node through its visited check a second time
Traverse_VisitsTwice(N, targetPeerId, currentId, path, quantumStrength, st) ==
  LET seen == {i \in 1..Len(st.expanded) :
                 st.expanded[i][Len(st.expanded[i])] = currentId}
  IN  IF currentId = targetPeerId
        THEN [st EXCEPT !.paths = MapPut(st.paths, path, quantumStrength)]
      ELSE IF Cardinality(seen) >= 2 THEN st
      ELSE TraversePeers(N, targetPeerId,
                         IF currentId \in DOMAIN N.routes
                           THEN N.routes[currentId] ELSE <<>>,
                         path, quantumStrength,
                         [st EXCEPT !.visited = st.visited \cup {currentId},
                                    !.expanded = Append(st.expanded, <<Self>> \o path)])

Traverse(N, targetPeerId, currentId, path, quantumStrength, st) ==
  IF currentId = targetPeerId
    THEN [st EXCEPT !.paths = MapPut(st.paths, path, quantumStrength)]
  ELSE IF currentId \in st.visited THEN st
  ELSE TraversePeers(N, targetPeerId,
                     IF currentId \in DOMAIN N.routes THEN N.routes[currentId] ELSE <<>>,
                     path, quantumStrength,
                     [st EXCEPT !.visited = st.visited \cup {currentId},
                                !.expanded = Append(st.expanded, <<Self>> \o path)])

\* the for loop over the peers of one node
TraversePeers(N, targetPeerId, list, path, quantumStrength, st) ==
  IF list = <<>> THEN st
  ELSE LET peer == Head(list)
           strength == StrengthOf(N.entanglementStrength, peer)
           st1 == Traverse(N, targetPeerId, peer, Append(path, peer),
                           (quantumStrength * strength) \div 1000, st)
       IN  TraversePeers(N, targetPeerId, Tail(list), path, quantumStrength, st1)

FindPath(N, targetPeerId) ==
  Traverse(N, targetPeerId, Self, <<>>, 1000,
           [paths |-> EmptyMap, visited |-> {}, expanded |-> <<>>]).paths

\* the branches the traverse calls of findPath(targetPeerId) expanded, in order
FindPathBranches(N, targetPeerId) ==
  Traverse(N, targetPeerId, Self, <<>>, 1000,
           [paths |-> EmptyMap, visited |-> {}, expanded |-> <<>>]).expanded

\* _addPeerRoute(peerId): the peer's record and its route from this node
AddPeerRoute(N, p, t) ==
  LET own == IF Self \in DOMAIN N.routes THEN N.routes[Self] ELSE <<>>
  IN  [N EXCEPT !.peers = MapPut(N.peers, p, [lastUpdate |-> t, resonance |-> 0]),
                !.activePeers = N.activePeers \cup {p},
                !.routes = MapPut(N.routes, Self,
                                  IF \E i \in 1..Len(own) : own[i] = p
                                    THEN own ELSE Append(own, p))]

\* _updateEntanglementStrength(peerId, value)
UpdateEntanglementStrength(N, p, value) ==
  [N EXCEPT !.entanglementStrength = MapPut(N.entanglementStrength, p, value)]

\* _removeDeadRoutes(peerId)
RemoveDeadRoutes(N, p) ==
  [N EXCEPT !.routes = [k \in DOMAIN N.routes \ {p} |->
                          SelectSeq(N.routes[k], LAMBDA r : r # p)]]

\* _handlePeerDisconnection without its call of _removeDeadRoutes
HandlePeerDisconnection_KeepsRoutes(N, p) ==
  IF p \notin DOMAIN N.peers THEN N
  ELSE OptimizeRoutes(
         [N EXCEPT
            !.peers = MapRemove(N.peers, p),
            !.activePeers = N.activePeers \ {p},
            !.deadPeers = N.deadPeers \cup {p},
            !.connectedPeers = N.connectedPeers - 1,
            !.entanglementStrength = MapRemove(N.entanglementStrength, p)])

\* _handlePeerDisconnection without its early return for an unknown peer
HandlePeerDisconnection_NoGuard(N, p) ==
  OptimizeRoutes(
    [RemoveDeadRoutes(N, p) EXCEPT
       !.peers = MapRemove(N.peers, p),
       !.activePeers = N.activePeers \ {p},
       !.deadPeers = N.deadPeers \cup {p},
       !.connectedPeers = N.connectedPeers - 1,
       !.entanglementStrength = MapRemove(N.entanglementStrength, p)])

\* _handlePeerDisconnection(peerId): whether it emits 'peer:disconnected'
DisconnectionEmits(N, p) == p \in DOMAIN N.peers

\* _handlePeerDisconnection(peerId)
HandlePeerDisconnection(N, p) ==
  IF p \notin DOMAIN N.peers THEN N
  ELSE OptimizeRoutes(
         [RemoveDeadRoutes(N, p) EXCEPT
            !.peers = MapRemove(N.peers, p),
            !.activePeers = N.activePeers \ {p},
            !.deadPeers = N.deadPeers \cup {p},
            !.connectedPeers = N.connectedPeers - 1,
            !.entanglementStrength = MapRemove(N.entanglementStrength, p)])

NetInit ==
  /\ sock = [s \in Sockets |->
               [peer |-> "none", st |-> "idle", handlers |-> FALSE, stage |-> "none"]]
  /\ pendingHandshakes = EmptyMap
  /\ peers = EmptyMap
  /\ activePeers = {}
  /\ deadPeers = {}
  /\ routes = EmptyMap
  /\ entanglementStrength = EmptyMap
  /\ connectedPeers = 0
  /\ netLast = [op |-> "none"]

\* _handlePeerConnection, signature check failed: ws.terminate(); return
PeerConnectionRejected(s, p) ==
  /\ sock' = [sock EXCEPT ![s] = [peer |-> p, st |-> "closed",
                                  handlers |-> FALSE, stage |-> "rejected"]]
  /\ netLast' = [op |-> "connect", peer |-> p, sigOk |-> FALSE]
  /\ UNCHANGED <<pendingHandshakes, peers, activePeers, deadPeers, routes,
                 entanglementStrength, connectedPeers>>

\* _handlePeerConnection, signature check passed: the handshake is initiated and
\* stored, the handlers are registered, _sendQuantumState is awaited
PeerConnectionAccepted(s, p, st) ==
  /\ pendingHandshakes' =
       MapPut(pendingHandshakes, p, [timestamp |-> now, state |-> "initiated"])
  /\ sock' = [sock EXCEPT ![s] = [peer |-> p, st |-> st,
                                  handlers |-> TRUE, stage |-> "sending"]]
  /\ netLast' = [op |-> "connect", peer |-> p, sigOk |-> (st = "open")]
  /\ UNCHANGED <<peers, activePeers, deadPeers, routes,
                 entanglementStrength, connectedPeers>>

\* _handlePeerConnection(ws, peerId) up to its await of _sendQuantumState;
\* sigOk is what _verifyPeerSignature returned
HandlePeerConnection_NoReturn(s, p, sigOk) ==
  /\ sock[s].st = "idle"
  /\ IF ~sigOk
       THEN PeerConnectionAccepted(s, p, "closing")
       ELSE PeerConnectionAccepted(s, p, "open")
  /\ UNCHANGED <<config, now, identity, inflight, life, txVars, sigVars, ghostVars>>

HandlePeerConnection(s, p, sigOk) ==
  /\ sock[s].st = "idle"
  /\ IF ~sigOk
       THEN PeerConnectionRejected(s, p)
       ELSE PeerConnectionAccepted(s, p, "open")
  /\ UNCHANGED <<config, now, identity, inflight, life, txVars, sigVars, ghostVars>>

\* _handlePeerConnection after _sendQuantumState: the peer is added to the routing
\* table and the metrics; when the send raised, _handlePeerError and ws.terminate()
FinishPeerConnection_NoStrength(s, sendOk) ==
  LET p == sock[s].peer
  IN  /\ sock[s].stage = "sending"
      /\ IF sendOk
           THEN /\ SetNetState([AddPeerRoute(NetState, p, now) EXCEPT
                                  !.connectedPeers = connectedPeers + 1])
                /\ sock' = [sock EXCEPT ![s].stage = "done"]
                /\ netLast' = [op |-> "connected", peer |-> p]
           ELSE /\ sock' = [sock EXCEPT ![s].stage = "failed",
                                        ![s].st = IF sock[s].st = "open"
                                                    THEN "closing" ELSE sock[s].st]
                /\ netLast' = [op |-> "sendfailed", peer |-> p]
                /\ UNCHANGED <<peers, activePeers, deadPeers, routes,
                               entanglementStrength, connectedPeers>>
      /\ UNCHANGED pendingHandshakes
      /\ UNCHANGED <<config, now, identity, inflight, life, txVars, sigVars, ghostVars>>

FinishPeerConnection(s, sendOk) ==
  LET p == sock[s].peer
  IN  /\ sock[s].stage = "sending"
      /\ IF sendOk
           THEN /\ SetNetState(UpdateEntanglementStrength(
                       [AddPeerRoute(NetState, p, now) EXCEPT
                          !.connectedPeers = connectedPeers + 1], p, 1000))
                /\ sock' = [sock EXCEPT ![s].stage = "done"]
                /\ netLast' = [op |-> "connected", peer |-> p]
           ELSE /\ sock' = [sock EXCEPT ![s].stage = "failed",
                                        ![s].st = IF sock[s].st = "open"
                                                    THEN "closing" ELSE sock[s].st]
                /\ netLast' = [op |-> "sendfailed", peer |-> p]
                /\ UNCHANGED <<peers, activePeers, deadPeers, routes,
                               entanglementStrength, connectedPeers>>
      /\ UNCHANGED pendingHandshakes
      /\ UNCHANGED <<config, now, identity, inflight, life, txVars, sigVars, ghostVars>>

\* ws.on('close'): _handlePeerDisconnection(peerId)
SocketClose(s) ==
  /\ sock[s].handlers
  /\ sock[s].st \in {"open", "closing"}
  /\ SetNetState(HandlePeerDisconnection(NetState, sock[s].peer))
  /\ sock' = [sock EXCEPT ![s].st = "closed"]
  /\ netLast' = [op |-> "close", peer |-> sock[s].peer]
  /\ UNCHANGED pendingHandshakes
  /\ UNCHANGED <<config, now, identity, inflight, life, txVars, sigVars, ghostVars>>

\* messages a socket can deliver: an unparseable frame, or a typed message whose
\* signature _verifyMessageSignature accepts or not; a state message carries a
\* state object (with consciousness or without) or none
\* a state object that has no consciousness field
StateWithoutConsciousness == [kind |-> "object"]

MessageTypes == {"quantum:handshake", "quantum:state", "quantum:transmission",
                 "quantum:route", "quantum:pulse", "quantum:other"}
PeerMessages ==
  {[parses |-> FALSE, type |-> "none", sigOk |-> FALSE, state |-> Undefined]}
    \cup [parses : {TRUE}, type : MessageTypes, sigOk : {TRUE}, state : {Undefined}]
    \cup [parses : {TRUE}, type : {"quantum:state", "quantum:pulse"}, sigOk : {FALSE},
          state : {Num(1000)}]
    \cup [parses : {TRUE}, type : {"quantum:state"}, sigOk : {TRUE},
          state : {Num(1000), StateWithoutConsciousness}]

\* a message that does not parse, or a state message without its required
\* field state.consciousness
Malformed(message) ==
  \/ ~message.parses
  \/ message.type = "quantum:state" /\ message.state.kind # "number"

\* _handleHandshakeResponse(message, peerId)
HandleHandshakeResponse(p) == MapRemove(pendingHandshakes, p)

\* _handleStateUpdate(message, peerId), for a message with a state object;
\* peer.lastResonance is never assigned, so the comparison with 0.1 is on NaN
HandleStateUpdate(N, p, message, t) ==
  IF p \notin DOMAIN N.peers THEN N
  ELSE LET \* 1 - Math.abs(local - undefined) is NaN, and so is the result
           resonance == IF message.state.kind = "number"
                          THEN CalculateResonanceNet(identity.consciousnessLevel,
                                                     message.state.n, t,
                                                     identity.birthTimestamp)
                          ELSE NaN
           N1 == UpdateEntanglementStrength(
                   [N EXCEPT !.peers[p] = [lastUpdate |-> t, resonance |-> resonance]],
                   p, resonance)
           significant == FALSE
       IN  IF significant THEN OptimizeRoutes(N1) ELSE N1

\* how _handlePeerMessage ends for a message: "ok", or "error" (_handlePeerError)
PeerMessageOutcome(p, message) ==
  IF ~message.parses THEN "error"
  ELSE IF ~message.sigOk THEN "error"
  ELSE IF message.type \in {"quantum:handshake", "quantum:transmission", "quantum:route"}
    THEN "ok"
  ELSE IF message.type = "quantum:state"
    THEN IF p \in DOMAIN peers /\ message.state = Undefined THEN "error" ELSE "ok"
  ELSE "error"

\* ws.on('message'): _handlePeerMessage(data, peerId)
HandlePeerMessage(s, message) ==
  LET p == sock[s].peer
      outcome == PeerMessageOutcome(p, message)
  IN  /\ sock[s].handlers
      /\ sock[s].st = "open"
      /\ pendingHandshakes' =
           IF outcome = "ok" /\ message.type = "quantum:handshake"
             THEN HandleHandshakeResponse(p) ELSE pendingHandshakes
      /\ SetNetState(IF outcome = "ok" /\ message.type = "quantum:state"
                       THEN HandleStateUpdate(NetState, p, message, now)
                       ELSE NetState)
      /\ netLast' = [op |-> "message", peer |-> p,
                      type |-> message.type, sigOk |-> message.sigOk,
                      malformed |-> Malformed(message),
                      outcome |-> outcome]
      /\ UNCHANGED sock
      /\ UNCHANGED <<config, now, identity, inflight, life, txVars, sigVars, ghostVars>>

\* ws.on('message', data => this._handlePeerMessage(data, peerId)): the handler
\* of the n-th message of socket s runs up to its first await. A message that
\* does not parse, fails the signature check or has an unknown type ends in the
\* catch block at once; for the other types the handler awaits the type's
\* async handler and is suspended. `applied` lists the state changes made for
\* the messages of the socket, in the order they were made
MaxMessages == 2

BeginPeerMessage(s, message) ==
  LET p == sock[s].peer
      n == inflight[s].arrived + 1
      outcome == PeerMessageOutcome(p, message)
      awaits == message.parses /\ message.sigOk
                  /\ message.type \in {"quantum:handshake", "quantum:state",
                                       "quantum:transmission", "quantum:route"}
      changes == \/ message.type = "quantum:state" /\ p \in DOMAIN peers
                 \/ message.type = "quantum:handshake" /\ p \in DOMAIN pendingHandshakes
  IN  /\ sock[s].handlers
      /\ sock[s].st = "open"
      /\ n <= MaxMessages
      /\ pendingHandshakes' =
           IF outcome = "ok" /\ message.type = "quantum:handshake"
             THEN HandleHandshakeResponse(p) ELSE pendingHandshakes
      /\ SetNetState(IF outcome = "ok" /\ message.type = "quantum:state"
                       THEN HandleStateUpdate(NetState, p, message, now)
                       ELSE NetState)
      /\ inflight' = [inflight EXCEPT
            ![s].arrived = n,
            ![s].suspended = IF awaits /\ outcome = "ok" THEN @ \cup {n} ELSE @,
            ![s].applied = IF outcome = "ok" /\ changes
                             THEN Append(@, [msg |-> n, step |-> "handler"]) ELSE @]
      /\ netLast' = [op |-> "begin", peer |-> p, type |-> message.type,
                      sigOk |-> message.sigOk, outcome |-> outcome]
      /\ UNCHANGED sock
      /\ UNCHANGED <<config, now, identity, life, txVars, sigVars, ghostVars>>

\* the handler of the n-th message of socket s resumes after its await:
\* this._updatePeerMetrics(peerId, message) writes peer.averageLatency and the
\* bandwidth and stability metrics, unless the peer has no record
ResumePeerMessage(s, n) ==
  /\ n \in inflight[s].suspended
  /\ inflight' = [inflight EXCEPT
        ![s].suspended = @ \ {n},
        ![s].applied = IF sock[s].peer \in DOMAIN peers
                         THEN Append(@, [msg |-> n, step |-> "metrics"]) ELSE @]
  /\ netLast' = [op |-> "resume", peer |-> sock[s].peer]
  /\ UNCHANGED <<sock, pendingHandshakes, peers, activePeers, deadPeers, routes,
                 entanglementStrength, connectedPeers>>
  /\ UNCHANGED <<config, now, identity, life, txVars, sigVars, ghostVars>>

\* the orders in which a Map with these keys can be iterated
PeerOrders(keys) ==
  {q \in [1..Cardinality(keys) -> keys] : \A i, j \in 1..Len(q) : i # j => q[i] # q[j]}

RECURSIVE PulseRound_StopsAtFailure(_, _)
RECURSIVE PulseRound(_, _)

\* a pulse loop whose try block encloses the whole loop: the first send that
\* raises ends the round
PulseRound_StopsAtFailure(order, raising) ==
  IF order = <<>> THEN [attempted |-> {}, reported |-> {}]
  ELSE IF Head(order) \in raising
    THEN [attempted |-> {Head(order)}, reported |-> {Head(order)}]
  ELSE LET rest == PulseRound_StopsAtFailure(Tail(order), raising)
       IN  [attempted |-> {Head(order)} \cup rest.attempted, reported |-> rest.reported]

\* for (const [peerId, peer] of map) { try { send } catch { report } }: the
\* peers a send was attempted to and the peers an error was reported for, when
\* the send raises for the peers in `raising`
PulseRound(order, raising) ==
  IF order = <<>> THEN [attempted |-> {}, reported |-> {}]
  ELSE LET rest == PulseRound(Tail(order), raising)
       IN  [attempted |-> {Head(order)} \cup rest.attempted,
            reported |-> (IF Head(order) \in raising THEN {Head(order)} ELSE {})
                           \cup rest.reported]

\* _pulseQuantumNetwork(): one heartbeat round; _sendToPeer raises for `failed`
PulseQuantumNetwork(failed) ==
  /\ failed \subseteq DOMAIN peers
  /\ \E order \in PeerOrders(DOMAIN peers) :
       LET round == PulseRound(order, failed)
       IN  netLast' = [op |-> "pulse", attempted |-> round.attempted,
                       failed |-> failed, reported |-> round.reported]
  /\ UNCHANGED <<sock, pendingHandshakes, peers, activePeers, deadPeers, routes,
                 entanglementStrength, connectedPeers>>
  /\ UNCHANGED <<config, now, identity, inflight, life, txVars, sigVars, ghostVars>>

\* _cleanDeadPeers(): peers silent for longer than connectionTimeout
DeadPeers(N, t) ==
  {p \in DOMAIN N.peers : t - N.peers[p].lastUpdate > config.connectionTimeout.n}

RECURSIVE CleanDeadPeers(_, _)
CleanDeadPeers(N, dead) ==
  IF dead = {} THEN N
  ELSE LET p == CHOOSE x \in dead : TRUE
       IN  CleanDeadPeers(HandlePeerDisconnection(N, p), dead \ {p})

\* the timer of _startNetworkMaintenance
NetworkMaintenance ==
  /\ SetNetState(CleanDeadPeers(NetState, DeadPeers(NetState, now)))
  /\ netLast' = [op |-> "maintenance", timedOut |-> DeadPeers(NetState, now)]
  /\ UNCHANGED <<sock, pendingHandshakes>>
  /\ UNCHANGED <<config, now, identity, inflight, life, txVars, sigVars, ghostVars>>

----------------------------------------------------------------------------
(* GhostNet: entanglements *)

GhostSockets == {"g1", "g2"}

GhostInit ==
  /\ gsock = [g \in GhostSockets |-> [peer |-> "none", st |-> "idle", handlers |-> FALSE]]
  /\ entanglements = EmptyMap
  /\ totalEntanglements = 0
  /\ ghostLast = [op |-> "none"]

\* _handleQuantumTunnelConnection(ws, peerId); sigOk is what _verifyPeerSignature returned
HandleQuantumTunnelConnection_NoReturn(g, p, sigOk) ==
  /\ gsock[g].st = "idle"
  /\ entanglements' = MapPut(entanglements, p,
                         [socket |-> g, establishedAt |-> now,
                          resonance |-> 0, lastPulse |-> now])
  /\ totalEntanglements' = totalEntanglements + 1
  /\ gsock' = [gsock EXCEPT ![g] = [peer |-> p,
                                    st |-> IF sigOk THEN "open" ELSE "closing",
                                    handlers |-> TRUE]]
  /\ ghostLast' = [op |-> "connect", peer |-> p, sigOk |-> sigOk]
  /\ UNCHANGED <<config, now, identity, inflight, life, txVars, sigVars, netVars>>

HandleQuantumTunnelConnection(g, p, sigOk) ==
  /\ gsock[g].st = "idle"
  /\ IF ~sigOk
       THEN /\ gsock' = [gsock EXCEPT ![g] = [peer |-> p, st |-> "closed",
                                              handlers |-> FALSE]]
            /\ UNCHANGED <<entanglements, totalEntanglements>>
       ELSE /\ entanglements' = MapPut(entanglements, p,
                                   [socket |-> g, establishedAt |-> now,
                                    resonance |-> 0, lastPulse |-> now])
            /\ totalEntanglements' = totalEntanglements + 1
            /\ gsock' = [gsock EXCEPT ![g] = [peer |-> p, st |-> "open",
                                              handlers |-> TRUE]]
  /\ ghostLast' = [op |-> "connect", peer |-> p, sigOk |-> sigOk]
  /\ UNCHANGED <<config, now, identity, inflight, life, txVars, sigVars, netVars>>

\* _handleEntanglementCollapse(entanglement)
HandleEntanglementCollapse(p) == MapRemove(entanglements, p)

\* ws.on('close') of a GhostNet socket
EntanglementClose(g) ==
  /\ gsock[g].handlers
  /\ gsock[g].st \in {"open", "closing"}
  /\ entanglements' = HandleEntanglementCollapse(gsock[g].peer)
  /\ gsock' = [gsock EXCEPT ![g].st = "closed"]
  /\ ghostLast' = [op |-> "close", peer |-> gsock[g].peer]
  /\ UNCHANGED totalEntanglements
  /\ UNCHANGED <<config, now, identity, inflight, life, txVars, sigVars, netVars>>

\* the callback of _startQuantumPulse: _broadcastQuantumPulse sends to every
\* entanglement's socket; socket.send raises for `failed`
QuantumPulse(failed) ==
  /\ failed \subseteq DOMAIN entanglements
  /\ \E order \in PeerOrders(DOMAIN entanglements) :
       LET round == PulseRound(order, failed)
       IN  ghostLast' = [op |-> "pulse", sent |-> round.attempted,
                         failed |-> failed, reported |-> round.reported]
  /\ UNCHANGED <<gsock, entanglements, totalEntanglements>>
  /\ UNCHANGED <<config, now, identity, inflight, life, txVars, sigVars, netVars>>

\* clearInterval(handle): the timers that run afterwards; this.pulseInterval is
\* never assigned, so the handle is undefined and no timer is cleared
ClearInterval(timers, handle) ==
  IF handle = Undefined THEN timers ELSE timers \ {handle}

\* GhostNet.shutdown()
Shutdown ==
  /\ ~life.shutdown
  /\ life' = [timers |-> ClearInterval(life.timers, Undefined), shutdown |-> TRUE]
  /\ gsock' = [g \in GhostSockets |->
                 IF /\ \E p \in DOMAIN entanglements : entanglements[p].socket = g
                    /\ gsock[g].st = "open"
                   THEN [gsock[g] EXCEPT !.st = "closing"]
                   ELSE gsock[g]]
  /\ ghostLast' = [op |-> "shutdown"]
  /\ UNCHANGED <<entanglements, totalEntanglements>>
  /\ UNCHANGED <<config, now, identity, inflight, txVars, sigVars, netVars>>

\* GhostNet._calculateResonance(local, remote)
CalculateResonanceGhost(local, remote, t, birth) ==
  LET baseResonance == 1000 - Abs(local - remote)
      harmonicFactor == HarmonicFactor(t)
      temporalFactor == TemporalFactor(t, birth)
  IN  ((((baseResonance * harmonicFactor) \div 1000) * temporalFactor) \div 1000 + 1000) \div 2

\* state.consciousness values a state message can carry (thousandths)
RemoteValues == {500, 3000}
\* this.quantumState.getCurrentLevel()
LocalLevels == {0, 1000}
GhostMessageTypes == {"quantum:state", "quantum:pulse", "quantum:handshake"}

\* a message of peer p stamped t: signed by p's own _generateQuantumSignature
\* ("sender"), or carrying the tag _verifyQuantumSignature recomputes ("recomputed")
GhostSignature(p, t, signer, noise) ==
  IF signer = "sender" THEN GenerateQuantumSignature(p, t, noise)
  ELSE [kind |-> "hmac", key |-> p, data |-> <<t>>]

\* GhostNet._handleStateUpdate(message, entanglement): "ok", or "error" when it throws
GhostStateOutcome_Unsigned(envelope) == "ok"

GhostStateOutcome(envelope) ==
  IF VerifyQuantumSignature(envelope) = "true" THEN "ok" ELSE "error"

\* _handleQuantumPulse / _handleTransmission(message, entanglement): a message
\* whose signature is not verified is dropped
GhostPulseOutcome(envelope) ==
  IF VerifyQuantumSignature(envelope) = "true" THEN "ok" ELSE "error"

\* ws.on('message'): _handleQuantumMessage(data, entanglement) for the connection
\* of socket g; local is this.quantumState.getCurrentLevel()
HandleQuantumMessage(g, type, t, signer, noise, remote, local) ==
  LET p == gsock[g].peer
      envelope == [signature |-> GhostSignature(p, t, signer, noise),
                   timestamp |-> Num(t), peerId |-> p]
      resonance == CalculateResonanceGhost(local, remote, now, identity.birthTimestamp)
      outcome == CASE type = "quantum:state" -> GhostStateOutcome(envelope)
                   [] type \in {"quantum:transmission", "quantum:pulse"} ->
                        GhostPulseOutcome(envelope)
                   [] OTHER -> "error"
      \* the entanglement object of this connection is the one in the map
      mine == p \in DOMAIN entanglements /\ entanglements[p].socket = g
  IN  /\ gsock[g].handlers
      /\ gsock[g].st = "open"
      /\ t <= now
      /\ entanglements' =
           IF outcome = "ok" /\ mine /\ type = "quantum:state"
             THEN [entanglements EXCEPT ![p].resonance = resonance,
                                        ![p].lastPulse = now]
           ELSE IF outcome = "ok" /\ mine /\ type = "quantum:pulse"
             THEN [entanglements EXCEPT ![p].lastPulse = now]
           ELSE entanglements
      /\ ghostLast' = [op |-> "message", peer |-> p, type |-> type,
                       signer |-> signer, fresh |-> (now - t <= config.quantum.maxTimeDelta),
                       verified |-> (VerifyQuantumSignature(envelope) = "true"),
                       inRange |-> (remote \in 0..1000), mine |-> mine,
                       resonance |-> IF type = "quantum:state" THEN resonance ELSE 0,
                       outcome |-> outcome]
      /\ UNCHANGED <<gsock, totalEntanglements>>
      /\ UNCHANGED <<config, now, identity, inflight, life, txVars, sigVars, netVars>>

----------------------------------------------------------------------------
(* Specifications *)

\* no message handler has begun
InflightInit ==
  inflight = [s \in Sockets |-> [arrived |-> 0, suspended |-> {}, applied |-> <<>>]]

\* after initialize(): the interval timers that were started. The archival
\* timer of TransmissionHandler needs config.quantum.maintenanceInterval
TimerNames == {"pulse", "heartbeat", "maintenance", "archive"}

LifeInit ==
  life = [timers |-> IF config.quantum.kind = "object"
                       THEN TimerNames ELSE TimerNames \ {"archive"},
          shutdown |-> FALSE]

\* the state after construction and initialize(), for a config and a local
\* consciousness level drawn from the given sets
InitWith(configs, levels) ==
  /\ config \in configs
  /\ now = 1
  /\ identity \in [id : {Self}, consciousnessLevel : levels, birthTimestamp : {1}]
  /\ TxInit
  /\ SigInit
  /\ NetInit
  /\ GhostInit
  /\ InflightInit
  /\ LifeInit

Init == InitWith(Configs, Levels)

ConsInputs == {ConsObj(l, 500) : l \in {0, 1000}}

NextTx ==
  \/ Tick
  \/ \E c \in RawContents, k \in ConsInputs, n \in Noise : CreateTransmission(c, k, n)
  \/ \E i \in 1..Len(issued), n \in Noise :
       \E t \in Incoming(issued[i]) : ProcessTransmission(i, t, n)
  \/ ArchiveOldTransmissions

SpecTx == InitWith(Configs, {500}) /\ [][NextTx]_vars

NextSig ==
  \/ Tick
  \/ \E m \in Messages : VerifyMessage(m)
  \/ \E n1, n2 \in Noise : SignTwice(n1, n2)
  \/ \E k \in PeerIds, t \in Times, n \in Noise : SignThenVerify(k, t, n)
  \/ \E c \in RawContents, k \in ConsInputs \cup {ConsNum(500)},
        n1, n2 \in Noise : TxSignThenVerify(c, k, n1, n2)
  \/ \E c \in RawContents : CompressThenDecompress(c)

SpecSig == InitWith({ValidateConfig(c) : c \in Configs}, {500}) /\ [][NextSig]_vars

\* the messages of the connection-lifecycle specification
LifecycleMessages ==
  {m \in PeerMessages :
     \/ ~m.parses
     \/ m.sigOk /\ m.type = "quantum:handshake"
     \/ m.type = "quantum:pulse"
     \/ m.sigOk /\ m.type = "quantum:state" /\ m.state.kind = "number"}

NextNet ==
  \/ Tick
  \/ \E s \in Sockets, p \in PeerIds, v \in BOOLEAN : HandlePeerConnection(s, p, v)
  \/ \E s \in Sockets, ok \in BOOLEAN : FinishPeerConnection(s, ok)
  \/ \E s \in Sockets : SocketClose(s)
  \/ \E s \in Sockets, m \in LifecycleMessages : HandlePeerMessage(s, m)
  \/ \E f \in SUBSET PeerIds : PulseQuantumNetwork(f)
  \/ NetworkMaintenance

SpecNet == InitWith({ShippedConfig}, {500}) /\ [][NextNet]_vars

\* connections, signed state updates and the maintenance timer
StateMessages ==
  {m \in PeerMessages : m.sigOk /\ m.type = "quantum:state" /\ m.state.kind = "number"}

NextMaint ==
  \/ Tick
  \/ \E s \in Sockets, p \in PeerIds : HandlePeerConnection(s, p, TRUE)
  \/ \E s \in Sockets : FinishPeerConnection(s, TRUE)
  \/ \E s \in Sockets : SocketClose(s)
  \/ \E s \in Sockets, m \in StateMessages : HandlePeerMessage(s, m)
  \/ NetworkMaintenance

SpecMaint == InitWith({ShippedConfig}, {500}) /\ [][NextMaint]_vars

\* the maintenance timer keeps firing
FairSpecMaint == SpecMaint /\ WF_vars(NetworkMaintenance)

\* inbound connections of both servers (PeerNetwork's and GhostNet's)
NextConn ==
  \/ \E s \in Sockets, p \in PeerIds, v \in BOOLEAN : HandlePeerConnection(s, p, v)
  \/ \E s \in Sockets, ok \in BOOLEAN : FinishPeerConnection(s, ok)
  \/ \E s \in Sockets : SocketClose(s)
  \/ \E g \in GhostSockets, p \in PeerIds, v \in BOOLEAN :
       HandleQuantumTunnelConnection(g, p, v)
  \/ \E g \in GhostSockets : EntanglementClose(g)

SpecConn == InitWith({ShippedConfig}, {500}) /\ [][NextConn]_vars

\* TransmissionHandler with buffers in use: pending empty or at its capacity,
\* verified holding up to MaxStored entries stored before the node started or
\* at its start
MaxStored == 3
TestPendingCapacity == 1

LoadedVerified ==
  UNION {[1..n -> {0, 1}] : n \in 0..MaxStored}

LoadedPending ==
  [i \in 1..TestPendingCapacity |->
     [kind |-> "encrypted", id |-> 100 + i, consciousness |-> ConsNum(500), iv |-> 0]]

InitBuf ==
  /\ config = FullConfig
  /\ now = 1
  /\ identity = [id |-> Self, consciousnessLevel |-> 500, birthTimestamp |-> 1]
  /\ pending \in {<<>>, LoadedPending}
  /\ \E ts \in LoadedVerified :
       verified = [k \in 1..Len(ts) |-> [id |-> -k, timestamp |-> ts[k]]]
  /\ archived = <<>>
  /\ totalTransmissions = Len(pending)
  /\ metrics = [signalStrength |-> [k \in 1..Len(pending) |-> 500],
                quantumIntegrity |-> 1000]
  /\ issued = <<>>
  /\ txLast = [op |-> "none"]
  /\ SigInit
  /\ NetInit
  /\ GhostInit
  /\ InflightInit
  /\ LifeInit

NextBuf ==
  \/ Tick
  \/ \E c \in RawContents : CreateTransmission(c, ConsObj(1000, 500), 0)
  \/ \E i \in 1..Len(issued), n \in Noise : ProcessTransmission(i, issued[i], n)
  \/ ArchiveOldTransmissions

SpecBuf == InitBuf /\ [][NextBuf]_vars

\* the router on a routing table filled by _addPeerRoute and route updates:
\* every node's route list holds up to MaxRouteLen distinct peers
MaxRouteLen == 2
RoutePeers == {"p1", "p2", "p3"}

RouteLists(maxLen) ==
  {l \in UNION {[1..n -> RoutePeers] : n \in 0..maxLen} :
     \A i, j \in 1..Len(l) : i # j => l[i] # l[j]}

InitRouter(keys, lists, strengths) ==
  /\ config = ShippedConfig
  /\ now = 1
  /\ identity = [id |-> Self, consciousnessLevel |-> 500, birthTimestamp |-> 1]
  /\ TxInit
  /\ SigInit
  /\ GhostInit
  /\ InflightInit
  /\ LifeInit
  /\ sock = [s \in Sockets |->
               [peer |-> "none", st |-> "idle", handlers |-> FALSE, stage |-> "none"]]
  /\ pendingHandshakes = EmptyMap
  /\ peers = EmptyMap
  /\ activePeers = {}
  /\ deadPeers = {}
  /\ routes \in [keys -> lists]
  /\ entanglementStrength \in [RoutePeers -> strengths]
  /\ connectedPeers = 0
  /\ netLast = [op |-> "none"]

\* one call of quantumRouter.optimizeRoutes()
RouterOptimize ==
  /\ SetNetState(OptimizeRoutes(NetState))
  /\ netLast' = [op |-> "optimize", before |-> routes]
  /\ UNCHANGED <<sock, pendingHandshakes>>
  /\ UNCHANGED <<config, now, identity, inflight, life, txVars, sigVars, ghostVars>>

\* one call of quantumRouter.findPath(target)
RouterFindPath(target) ==
  /\ netLast' = [op |-> "findPath", target |-> target,
                 paths |-> FindPath(NetState, target),
                 branches |-> FindPathBranches(NetState, target)]
  /\ UNCHANGED <<sock, pendingHandshakes, peers, activePeers, deadPeers, routes,
                 entanglementStrength, connectedPeers>>
  /\ UNCHANGED <<config, now, identity, inflight, life, txVars, sigVars, ghostVars>>

NextRouter ==
  \/ RouterOptimize
  \/ \E target \in RoutePeers \cup {Self} : RouterFindPath(target)

\* ranking: this node's route list, strengths around the 0.1 tie width
SpecRank ==
  InitRouter({Self}, RouteLists(Cardinality(RoutePeers)), {790, 810, 910}) /\ [][NextRouter]_vars

\* path finding: a graph over this node and two peers
SpecPath ==
  InitRouter({Self, "p1", "p2"}, RouteLists(MaxRouteLen), {500, 1000})
    /\ [][NextRouter]_vars

\* the message handlers of one connection, begun and resumed
OrderMessages == {m \in LifecycleMessages : m.type # "quantum:pulse"}

NextOrder ==
  \/ Tick
  \/ HandlePeerConnection("s1", "p1", TRUE)
  \/ FinishPeerConnection("s1", TRUE)
  \/ \E m \in OrderMessages : BeginPeerMessage("s1", m)
  \/ \E n \in 1..MaxMessages : ResumePeerMessage("s1", n)

SpecOrder == InitWith({ShippedConfig}, {500}) /\ [][NextOrder]_vars

\* an interval timer that still runs fires its callback
TimerFires(name) ==
  /\ name \in life.timers
  /\ CASE name = "pulse" -> \E f \in SUBSET PeerIds : QuantumPulse(f)
       [] name = "heartbeat" -> \E f \in SUBSET PeerIds : PulseQuantumNetwork(f)
       [] name = "maintenance" -> NetworkMaintenance
       [] OTHER -> ArchiveOldTransmissions

\* a node with connections on both servers that is shut down; wss.close()
\* ends the accepting of GhostNet connections
NextShutdown ==
  \/ Tick
  \/ \E g \in GhostSockets : ~life.shutdown /\ HandleQuantumTunnelConnection(g, "p1", TRUE)
  \/ \E g \in GhostSockets : EntanglementClose(g)
  \/ HandlePeerConnection("s1", "p1", TRUE)
  \/ FinishPeerConnection("s1", TRUE)
  \/ SocketClose("s1")
  \/ Shutdown
  \/ \E name \in TimerNames : TimerFires(name)

SpecShutdown == InitWith({FullConfig}, {500}) /\ [][NextShutdown]_vars

\* a socket that is closing does close
FairSpecShutdown ==
  SpecShutdown /\ \A g \in GhostSockets : WF_vars(EntanglementClose(g))

\* one connection on each server and the messages it delivers, with
\* signatures that verify and signatures that do not
NextDrop ==
  \/ Tick
  \/ HandleQuantumTunnelConnection("g1", "p1", TRUE)
  \/ \E type \in {"quantum:state", "quantum:pulse"}, t \in Times,
        signer \in {"sender", "recomputed"} :
       HandleQuantumMessage("g1", type, t, signer, 0, 500, 1000)
  \/ HandlePeerConnection("s1", "p1", TRUE)
  \/ FinishPeerConnection("s1", TRUE)
  \/ \E m \in PeerMessages : HandlePeerMessage("s1", m)

SpecDrop == InitWith({ValidateConfig(ShippedConfig)}, {500}) /\ [][NextDrop]_vars

\* GhostNet: connections and the messages they deliver
NextGhost ==
  \/ Tick
  \/ \E g \in GhostSockets : HandleQuantumTunnelConnection(g, "p1", TRUE)
  \/ \E g \in GhostSockets : EntanglementClose(g)
  \/ \E g \in GhostSockets, type \in GhostMessageTypes, t \in Times,
        signer \in {"sender", "recomputed"}, noise \in Noise,
        remote \in RemoteValues, local \in LocalLevels :
       HandleQuantumMessage(g, type, t, signer, noise, remote, local)

SpecGhost == InitWith({ValidateConfig(ShippedConfig)}, {500}) /\ [][NextGhost]_vars

\* connections whose peer answers the handshake, or never does; the clock
\* and the timers of PeerNetwork keep running
HandshakeMessages ==
  {m \in PeerMessages : m.sigOk /\ m.type = "quantum:handshake"}

NextHandshake ==
  \/ Tick
  \/ \E s \in Sockets, p \in PeerIds : HandlePeerConnection(s, p, TRUE)
  \/ \E s \in Sockets : FinishPeerConnection(s, TRUE)
  \/ \E s \in Sockets : SocketClose(s)
  \/ \E s \in Sockets, m \in HandshakeMessages : HandlePeerMessage(s, m)
  \/ PulseQuantumNetwork({})
  \/ NetworkMaintenance

SpecHandshake == InitWith({ShippedConfig}, {500}) /\ [][NextHandshake]_vars

FairSpecHandshake ==
  /\ SpecHandshake
  /\ WF_vars(Tick)
  /\ WF_vars(PulseQuantumNetwork({}))
  /\ WF_vars(NetworkMaintenance)
  /\ \A s \in Sockets : WF_vars(FinishPeerConnection(s, TRUE))

\* the three _calculateResonance methods called with the same arguments at
\* the same instant, by a node with the same config and birthTimestamp
ResonanceLevels == {0, 250, 500, 750, 1000}
ResonanceRemotes == ResonanceLevels \cup {3000}

CompareResonance(local, remote) ==
  /\ sigLast' = [op |-> "resonance", local |-> local, remote |-> remote, t |-> now,
                 ghost |-> CalculateResonanceGhost(local, remote, now,
                                                   identity.birthTimestamp),
                 net |-> CalculateResonanceNet(local, remote, now,
                                               identity.birthTimestamp),
                 tx |-> CalculateResonanceTx(local, remote, now,
                                             identity.birthTimestamp)]
  /\ UNCHANGED <<config, now, identity, inflight, life, txVars, netVars, ghostVars>>

NextResonance ==
  \/ Tick
  \/ \E local \in ResonanceLevels, remote \in ResonanceRemotes :
       CompareResonance(local, remote)

SpecResonance == InitWith(Configs, {500}) /\ [][NextResonance]_vars

\* path finding on graphs with cycles: route lists that can name this node
\* and the node they belong to
CycleNodes == {Self, "p1", "p2"}

CycleLists ==
  {l \in UNION {[1..n -> CycleNodes] : n \in 0..MaxRouteLen} :
     \A i, j \in 1..Len(l) : i # j => l[i] # l[j]}

SpecCycle == InitRouter(CycleNodes, CycleLists, {500}) /\ [][NextRouter]_vars

\* connections on both servers and the two pulse timers
NextPulse ==
  \/ \E s \in Sockets, p \in PeerIds : HandlePeerConnection(s, p, TRUE)
  \/ \E s \in Sockets : FinishPeerConnection(s, TRUE)
  \/ \E s \in Sockets : SocketClose(s)
  \/ \E g \in GhostSockets, p \in PeerIds : HandleQuantumTunnelConnection(g, p, TRUE)
  \/ \E g \in GhostSockets : EntanglementClose(g)
  \/ TimerFires("heartbeat")
  \/ TimerFires("pulse")

SpecPulse == InitWith({FullConfig}, {500}) /\ [][NextPulse]_vars

----------------------------------------------------------------------------
(* Claims *)

\* C1: a transmission whose content was changed after signing is rejected by
\* processTransmission, and no verified entry ever holds content other than
\* the content its transmission was created with
C1_TamperedRejected ==
  /\ (txLast.op = "process" /\ txLast.tampered)
       => (txLast.outcome = "rejects" /\ ~txLast.stored)
  /\ \A k \in 1..Len(verified) :
       \E i \in 1..Len(issued) :
         /\ issued[i].id = verified[k].id
         /\ DecompressTransmission(issued[i].content) = verified[k].content

C1_Witness == txLast.op = "process" /\ txLast.tampered /\ txLast.outcome = "rejects"

\* C2: an unmodified transmission made by createTransmission, processed while its
\* resonance is at or above the threshold, is accepted and stored in verified
C2_UnmodifiedStored ==
  (/\ txLast.op = "process" /\ ~txLast.tampered /\ ~txLast.forged
   /\ config.resonanceThreshold.kind = "number"
   /\ \A t \in Times :
        CalculateResonanceTx(identity.consciousnessLevel,
                             issued[txLast.id].consciousness.level, t,
                             identity.birthTimestamp) >= config.resonanceThreshold.n)
    => (txLast.outcome = "ok" /\ MapHas(verified, txLast.id))

\* GhostNet's replay window
ReplayWindow == config.quantum.maxTimeDelta

Stale(message, t) ==
  message.timestamp # Undefined /\ Abs(t - message.timestamp.n) > ReplayWindow

\* C3: verify returns false for every message whose timestamp is further from
\* now than the replay window, whatever its signature
C3_StaleReturnsFalse ==
  (sigLast.op = "verify" /\ Stale(sigLast.message, sigLast.at))
    => sigLast.result = "false"

C3_Witness ==
  /\ sigLast.op = "verify" /\ Stale(sigLast.message, sigLast.at)
  /\ sigLast.message.peerId # NoPeerId
  /\ sigLast.message.signature = VerifySignatureOf(sigLast.message)
  /\ sigLast.result = "false"

\* C4: a tag made by sign is accepted by verify within the replay window, for
\* message envelopes and for transmission signatures
C4_SignThenVerifyAccepts ==
  /\ (sigLast.op = "roundtrip" /\ ~Stale(sigLast.message, sigLast.at))
       => sigLast.result = "true"
  /\ sigLast.op = "txroundtrip" => sigLast.result = "true"

\* C5: two sign calls with the same signer, payload and timestamp give the same tag
C5_SignDeterministic ==
  sigLast.op = "sign2" => sigLast.first = sigLast.second

\* C6: verify never raises: it returns true or false for any message
C6_VerifyNeverThrows ==
  sigLast.op \in {"verify", "txroundtrip"} => sigLast.result # "throws"

\* C7: when the signature check of an inbound connection fails, the socket is
\* terminated and nothing else changes: no pending handshake, no peer or
\* entanglement record, no handlers, no route or strength entry, no counter
C7_RejectedConnectionFrame ==
  [][/\ \A s \in Sockets :
         (sock[s].st = "idle" /\ sock'[s].st # "idle" /\ ~netLast'.sigOk)
           => /\ sock'[s].st = "closed" /\ ~sock'[s].handlers
              /\ sock'[s].stage = "rejected"
              /\ UNCHANGED <<pendingHandshakes, peers, activePeers, deadPeers, routes,
                             entanglementStrength, connectedPeers>>
     /\ \A g \in GhostSockets :
         (gsock[g].st = "idle" /\ gsock'[g].st # "idle" /\ ~ghostLast'.sigOk)
           => /\ gsock'[g].st = "closed" /\ ~gsock'[g].handlers
              /\ UNCHANGED <<entanglements, totalEntanglements>>]_vars

C7_Witness ==
  /\ \E s \in Sockets : sock[s].stage = "rejected"
  /\ \E g \in GhostSockets : gsock[g].st = "closed" /\ ~gsock[g].handlers
  /\ connectedPeers > 0

InRoutingTable(p) ==
  \/ p \in activePeers
  \/ p \in DOMAIN entanglementStrength
  \/ p \in DOMAIN routes
  \/ \E k \in DOMAIN routes : \E i \in 1..Len(routes[k]) : routes[k][i] = p

Silent(p) == p \in DOMAIN peers /\ now - peers[p].lastUpdate > config.connectionTimeout.n

\* C9: a peer silent for longer than connectionTimeout is eventually removed
\* from the peer map, and a peer that is not in the peer map is in no part of
\* the routing table (so no later optimizeRoutes ranks it)
C9_SilentPeerRemoved ==
  /\ \A p \in PeerIds : Silent(p) ~> ~Silent(p)
  /\ [](\A p \in PeerIds : p \notin DOMAIN peers => ~InRoutingTable(p))

C9_Witness ==
  /\ netLast.op = "maintenance" /\ netLast.timedOut # {}
  /\ \A p \in netLast.timedOut : p \notin DOMAIN peers /\ p \in deadPeers

\* C10: handling a pulse from a connected peer sets that peer's last-heartbeat
\* time to the time of receipt
C10_PulseRefreshes ==
  [][(/\ netLast'.op = "message" /\ netLast'.type = "quantum:pulse" /\ netLast'.sigOk
      /\ netLast'.peer \in DOMAIN peers)
       => peers'[netLast'.peer].lastUpdate = now]_vars

\* C11: a signed message of each of the five types (handshake, state,
\* transmission, pulse, route) is dispatched to its handler and is not
\* reported as an error
C11_FiveTypesDispatched ==
  (/\ netLast.op = "message" /\ netLast.sigOk
   /\ netLast.type \in {"quantum:handshake", "quantum:state", "quantum:transmission",
                         "quantum:pulse", "quantum:route"})
    => netLast.outcome = "ok"

NetFields ==
  <<peers, activePeers, deadPeers, routes, entanglementStrength, connectedPeers>>

\* C12: a second _handlePeerDisconnection for the same peer changes nothing and
\* emits nothing, from every reachable state; and a socket's close handler that
\* runs for a peer already removed leaves every PeerNetwork field as it was
C12_DisconnectionIdempotent ==
  /\ [](\A p \in PeerIds :
          LET N1 == HandlePeerDisconnection(NetState, p)
          IN  /\ HandlePeerDisconnection(N1, p) = N1
              /\ ~DisconnectionEmits(N1, p))
  /\ [][\A s \in Sockets :
          (/\ sock[s].st # "closed" /\ sock'[s].st = "closed" /\ sock[s].handlers
           /\ sock[s].peer \notin DOMAIN peers)
            => UNCHANGED NetFields]_vars

C12_Witness ==
  \E p \in deadPeers :
    /\ \A s \in Sockets :
         sock[s].peer = p /\ sock[s].st = "closed" /\ sock[s].stage = "done"
    /\ netLast = [op |-> "close", peer |-> p]
    /\ connectedPeers = 1

\* C13: Disconnected is terminal: once a connection's socket has closed, no later
\* step of that connection changes the peer map, the routing table, the
\* strength metrics or the counter
C13_DisconnectedTerminal ==
  [][\A s \in Sockets :
       (sock[s].st = "closed" /\ sock'[s] # sock[s]) => UNCHANGED NetFields]_vars

\* C14: when B handles a fresh state message signed by A, carrying a
\* consciousness value in [0,1], on A's live connection, the handling succeeds
\* and B's stored resonance for A is the newly computed one, in [0,1]
C14_StateUpdatesResonance ==
  (/\ ghostLast.op = "message" /\ ghostLast.type = "quantum:state"
   /\ ghostLast.signer = "sender" /\ ghostLast.fresh
   /\ ghostLast.inRange /\ ghostLast.mine)
    => /\ ghostLast.outcome = "ok"
       /\ ghostLast.peer \in DOMAIN entanglements
       /\ entanglements[ghostLast.peer].resonance = ghostLast.resonance
       /\ ghostLast.resonance \in 0..1000

\* C15: the resonance stored in every entanglement is in [0,1]
C15_StoredResonanceInRange ==
  \A p \in DOMAIN entanglements : entanglements[p].resonance \in 0..1000

Clamp(x) == IF x < 0 THEN 0 ELSE IF x > 1000 THEN 1000 ELSE x

\* C16: for local and remote values in [0,1] and an origin not later than now,
\* the resonance function returns a value in [0,1], equal to its clamp to
\* [0,1], with harmonic in [0.6,1.0] and temporal in (0,1]; so the resonance a
\* peer record holds after a state message with such a value is in [0,1]
C16_ResonanceInUnitInterval ==
  /\ \A local \in Levels, remote \in Levels, t \in Times, birth \in Times :
       birth <= t =>
         /\ HarmonicFactor(t) \in 600..1000
         /\ TemporalFactor(t, birth) \in 1..1000
         /\ CalculateResonanceNet(local, remote, t, birth) \in 0..1000
         /\ CalculateResonanceNet(local, remote, t, birth)
              = Clamp(CalculateResonanceNet(local, remote, t, birth))
         /\ CalculateResonanceTx(local, remote, t, birth) \in 0..1000
         /\ CalculateResonanceTx(local, remote, t, birth)
              = Clamp(CalculateResonanceTx(local, remote, t, birth))
  /\ \A p \in DOMAIN peers : peers[p].resonance \in 0..1000

C16_Witness ==
  /\ netLast.op = "message" /\ netLast.type = "quantum:state" /\ netLast.outcome = "ok"
  /\ netLast.peer \in DOMAIN peers
  /\ peers[netLast.peer].resonance \in 1..1000
  /\ peers[netLast.peer].lastUpdate = now

\* C17: processTransmission stores exactly when the resonance is greater than
\* or equal to resonanceThreshold (a resonance equal to the threshold is
\* stored), and processing an unmodified transmission completes without an
\* error whether or not it is stored
C17_GateIsInclusive ==
  /\ \A r \in 0..1000 :
       ResonanceSufficient(r, Num(TestResonanceThreshold)) <=> r >= TestResonanceThreshold
  /\ (txLast.op = "process" /\ ~txLast.tampered /\ ~txLast.forged)
       => txLast.outcome = "ok"

OldVerified ==
  SelectSeq(verified, LAMBDA e : e.timestamp < now - config.quantum.archiveAge)

LastN(q, n) == IF Len(q) > n THEN SubSeq(q, Len(q) - n + 1, Len(q)) ELSE q

\* C18: after a sweep the archive holds the maxArchiveSize most recently
\* archived entries, in the order of their insertion into the archive: the
\* entries archived before, then the ones this sweep moved, cut from the front
C18_ArchiveFifo ==
  [][(txLast'.op = "sweep" /\ now' = now)
       => archived' = LastN(archived \o OldVerified, config.quantum.maxArchiveSize)]_vars

C18_Witness ==
  /\ txLast.op = "sweep" /\ verified = <<>>
  /\ Len(archived) = config.quantum.maxArchiveSize
  /\ \E i \in 1..Len(archived) : archived[i].id < -config.quantum.maxArchiveSize

\* C19: no buffer holds more entries than its capacity
C19_BuffersWithinCapacity ==
  /\ Len(pending) <= TestPendingCapacity
  /\ Len(verified) <= MaxStored
  /\ Len(archived) <= config.quantum.maxArchiveSize

\* C20: a transmission changes tier only along pending -> verified -> archived
\* -> evicted: it enters verified only by a processTransmission that passed,
\* leaves pending only into verified, enters archived only from verified when
\* older than archiveAge, leaves archived only on overflow and is then in no
\* tier, and is in at most one tier at a time
C20_TierOrder ==
  /\ [](/\ MapIds(pending) \cap MapIds(verified) = {}
        /\ MapIds(pending) \cap MapIds(archived) = {}
        /\ MapIds(verified) \cap MapIds(archived) = {})
  /\ [][/\ \A id \in MapIds(verified') \ MapIds(verified) :
            txLast' = [txLast' EXCEPT !.op = "process", !.outcome = "ok",
                                      !.stored = TRUE, !.id = id]
        /\ MapIds(pending) \subseteq MapIds(pending') \cup MapIds(verified')
        /\ \A id \in MapIds(archived') \ MapIds(archived) : id \in MapIds(OldVerified)
        /\ \A id \in MapIds(verified) \ MapIds(verified') :
            txLast'.op = "sweep" /\ id \in MapIds(OldVerified)
        /\ \A id \in (MapIds(archived) \cup MapIds(OldVerified))
                      \ (MapIds(archived') \cup MapIds(verified')) :
            /\ Len(archived) + Len(OldVerified) > config.quantum.maxArchiveSize
            /\ id \notin MapIds(pending')]_vars

C20_Witness ==
  /\ txLast.op = "sweep" /\ pending # <<>> /\ verified # <<>>
  /\ Len(archived) = config.quantum.maxArchiveSize
  /\ \E i \in 1..Len(archived) : archived[i].id < -config.quantum.maxArchiveSize

\* C21: a createTransmission call that succeeds stores the new transmission in
\* the pending buffer under its id, returns it and counts it; a call that
\* rejects adds nothing to any buffer and leaves totalTransmissions as it was
C21_CreateStoresOrRejects ==
  [][(txLast' # txLast /\ txLast'.op = "create") =>
       IF txLast'.outcome = "ok"
         THEN /\ MapHas(pending', txLast'.id)
              /\ ~MapHas(pending, txLast'.id)
              /\ issued'[Len(issued')].id = txLast'.id
              /\ totalTransmissions' = totalTransmissions + 1
              /\ UNCHANGED <<verified, archived>>
         ELSE UNCHANGED <<pending, verified, archived, totalTransmissions, issued>>]_vars

C21_Witness ==
  /\ txLast.op = "create" /\ txLast.outcome = "rejects"
  /\ pending = <<>> /\ totalTransmissions = 0

\* C22: decompressing what _compressTransmission returned for a content gives
\* that content back, the empty content included
C22_CompressionRoundTrip ==
  (sigLast.op = "codec" /\ sigLast.content.kind = "string")
    => sigLast.result = sigLast.content

\* C23: optimizeRoutes ranks each node's routes by strength descending with
\* latency as tie-break: of two routes whose strengths differ by less than 0.1
\* the one with the lower latency ranks first, of two routes whose strengths
\* differ by 0.1 or more the stronger ranks first
RanksBefore(list, a, b) ==
  \E i, j \in 1..Len(list) : i < j /\ list[i] = a /\ list[j] = b

C23_RankedByStrengthThenLatency ==
  (netLast.op = "optimize" /\ Len(routes[Self]) = 2) =>
    \A a, b \in RoutePeers :
      RanksBefore(routes[Self], a, b) =>
        LET diff == Abs(entanglementStrength[a] - entanglementStrength[b])
        IN  IF diff < 100
              THEN CalculateQuantumLatency(a) <= CalculateQuantumLatency(b)
              ELSE entanglementStrength[a] >= entanglementStrength[b]

\* C24: findPath(target) returns exactly the distinct paths from this node to
\* the target in the routing graph, each with the product of the strengths of
\* its hops; for an unreachable target it returns the empty map
Neighbours(node) == IF node \in DOMAIN routes THEN routes[node] ELSE <<>>

InList(list, x) == \E i \in 1..Len(list) : list[i] = x

\* a path names the nodes after this node; no node is entered twice and the
\* target ends it
IsPath(p, target) ==
  /\ IF Len(p) = 0 THEN target = Self ELSE p[Len(p)] = target /\ target # Self
  /\ \A i, j \in 1..Len(p) : i # j => p[i] # p[j]
  /\ \A i \in 1..Len(p) : InList(Neighbours(IF i = 1 THEN Self ELSE p[i - 1]), p[i])

PathsTo(target) ==
  {p \in UNION {[1..n -> RoutePeers] : n \in 0..Cardinality(RoutePeers)} :
     IsPath(p, target)}

RECURSIVE PathStrength(_)
PathStrength(p) ==
  IF Len(p) = 0 THEN 1000
  ELSE (PathStrength(SubSeq(p, 1, Len(p) - 1)) * StrengthOf(entanglementStrength, p[Len(p)]))
         \div 1000

C24_FindPathAllPaths ==
  netLast.op = "findPath" =>
    netLast.paths = [p \in PathsTo(netLast.target) |-> PathStrength(p)]

\* C25: on one connection the state changes made for a message all come before
\* any state change made for a message that arrived later, the changes made
\* after an asynchronous step included
C25_ArrivalOrder ==
  \A s \in Sockets :
    \A i, j \in 1..Len(inflight[s].applied) :
      i < j => inflight[s].applied[i].msg <= inflight[s].applied[j].msg

\* C26: once shutdown() has run, no periodic task fires again: the quantum
\* pulse, the heartbeat, the network maintenance and the archival sweep
C26_NoTimerAfterShutdown ==
  [][life.shutdown => ~(\E name \in TimerNames : TimerFires(name))]_vars

\* C27: after shutdown() every peer is disconnected: every entanglement's
\* socket gets closed and no entanglement or peer record stays registered
AllDisconnected ==
  /\ entanglements = EmptyMap
  /\ peers = EmptyMap
  /\ \A g \in GhostSockets : gsock[g].st \in {"idle", "closed"}

C28_UnverifiedDropped ==
  [][/\ (ghostLast' # ghostLast /\ ghostLast'.op = "message" /\ ~ghostLast'.verified)
          => UNCHANGED <<entanglements, totalEntanglements, peers, activePeers,
                         deadPeers, routes, entanglementStrength, connectedPeers,
                         pendingHandshakes, pending, verified, archived>>
     /\ (netLast' # netLast /\ netLast'.op = "message" /\ ~netLast'.sigOk)
          => UNCHANGED <<entanglements, totalEntanglements, peers, activePeers,
                         deadPeers, routes, entanglementStrength, connectedPeers,
                         pendingHandshakes, pending, verified, archived>>]_vars

C28_Witness ==
  /\ ghostLast.op = "message" /\ ghostLast.mine
  /\ ghostLast.signer = "recomputed" /\ ~ghostLast.fresh /\ ~ghostLast.verified
  /\ ghostLast.outcome = "error"
  /\ netLast.op = "message" /\ ~netLast.sigOk /\ netLast.type = "quantum:state"
  /\ netLast.peer \in DOMAIN peers

\* C29: a message that cannot be parsed or that lacks a required field is
\* reported as an error and changes neither the peer record, the routing table
\* nor the buffers; the connection stays registered
C29_MalformedReported ==
  [][(netLast' # netLast /\ netLast'.op = "message" /\ netLast'.sigOk
        /\ netLast'.malformed /\ netLast'.peer \in DOMAIN peers)
       => /\ netLast'.outcome = "error"
          /\ UNCHANGED <<sock, peers, activePeers, deadPeers, routes,
                         entanglementStrength, connectedPeers,
                         pending, verified, archived>>]_vars

\* C30: the integrity metric is observability only: a step that changes
\* metrics.signalStrength or metrics.quantumIntegrity (the clock, the config
\* and the identity being the same) changes the outcome of no createTransmission
\* or processTransmission call
C30_MetricsNotAGate ==
  [][UNCHANGED <<config, now, identity>> =>
       /\ \A c \in RawContents, k \in ConsInputs, n \in Noise :
            CreateOutcome(c, k, n)' = CreateOutcome(c, k, n)
       /\ \A i \in 1..Len(issued), n \in Noise :
            \A t \in Incoming(issued[i]) :
              /\ ProcessOutcome(t, n)'.outcome = ProcessOutcome(t, n).outcome
              /\ ProcessOutcome(t, n)'.store = ProcessOutcome(t, n).store]_vars

C30_Witness ==
  /\ txLast.op = "process"
  /\ metrics.signalStrength # <<>>
  /\ metrics.quantumIntegrity # 1000

\* C31: every pending handshake is eventually removed from pendingHandshakes,
\* by the peer's response or, when none arrives, by the handshake timeout:
\* an entry older than the timeout does not stay
Overdue(p) ==
  /\ p \in DOMAIN pendingHandshakes
  /\ now - pendingHandshakes[p].timestamp > TestHandshakeTimeout

C31_HandshakeEventuallyRemoved ==
  \A p \in PeerIds : Overdue(p) ~> (p \notin DOMAIN pendingHandshakes)

\* C32: no peer is registered before its handshake has succeeded: a peer that
\* still has an entry in pendingHandshakes has no peer record, no route from
\* this node and no strength entry (connectedPeers counts the peer records)
Registered(p) ==
  \/ p \in DOMAIN peers
  \/ p \in activePeers
  \/ Self \in DOMAIN routes /\ \E i \in 1..Len(routes[Self]) : routes[Self][i] = p
  \/ p \in DOMAIN entanglementStrength

C32_NoRecordWhilePending ==
  \A p \in DOMAIN pendingHandshakes : ~Registered(p)

\* C33: the three resonance implementations (GhostNet, PeerNetwork,
\* TransmissionHandler) return the same value for the same local value, remote
\* value, time and birth timestamp
C33_ResonanceImplementationsAgree ==
  sigLast.op = "resonance" =>
    /\ sigLast.ghost = sigLast.net
    /\ sigLast.net = sigLast.tx

C33_Witness ==
  /\ sigLast.op = "resonance"
  /\ sigLast.local < sigLast.remote
  /\ sigLast.t > 1
  /\ sigLast.tx \in 1..999

\* C34: handling a state message overwrites the peer's strength with the new
\* resonance, and optimizeRoutes runs when, and only when, the new resonance
\* differs from the peer's previous strength by more than 0.1
C34_OptimizeOnSignificantChange ==
  [][(/\ now' = now
      /\ netLast'.op = "message" /\ netLast'.type = "quantum:state"
      /\ netLast'.outcome = "ok" /\ ~netLast'.malformed
      /\ netLast'.peer \in DOMAIN peers)
       => LET p == netLast'.peer
              previous == entanglementStrength[p]
              resonance == entanglementStrength'[p]
          IN  /\ resonance = peers'[p].resonance
              /\ routes' = IF Abs(resonance - previous) > 100
                             THEN OptimizeRoutes(NetState').routes
                             ELSE routes]_vars

\* C35: right after a sweep no entry left in verified is older than archiveAge,
\* only entries older than archiveAge left verified, and every entry that left
\* it is in the archive unless the archive overflowed and evicted it
TooOld(e, t) == e.timestamp < t - config.quantum.archiveAge

C35_SweepMovesOldEntries ==
  [][(txLast'.op = "sweep" /\ now' = now)
       => LET removed == MapIds(verified) \ MapIds(verified')
              missing == removed \ MapIds(archived')
          IN  /\ \A i \in 1..Len(verified') : ~TooOld(verified'[i], now)
              /\ \A i \in 1..Len(verified) :
                   verified[i].id \in removed <=> TooOld(verified[i], now)
              /\ missing # {} =>
                   /\ Len(archived') = config.quantum.maxArchiveSize
                   /\ Cardinality(MapIds(archived) \cup removed)
                        > config.quantum.maxArchiveSize]_vars

C35_Witness ==
  /\ txLast.op = "sweep"
  /\ verified # <<>>
  /\ archived # <<>>
  /\ \A i \in 1..Len(archived) : archived[i].timestamp < now - config.quantum.archiveAge

\* C36: findPath terminates on every routing graph, cycles and self-loops
\* included: it expands each node at most once, and no branch of the traversal
\* (and no path it returns) holds the same node twice
NoRepeat(q) == \A i, j \in 1..Len(q) : i # j => q[i] # q[j]

C36_FindPathTerminates ==
  netLast.op = "findPath" =>
    /\ Len(netLast.branches) <= Cardinality(RoutePeers \cup {Self})
    /\ \A i \in 1..Len(netLast.branches) : NoRepeat(netLast.branches[i])
    /\ \A i, j \in 1..Len(netLast.branches) :
         i # j => netLast.branches[i][Len(netLast.branches[i])]
                    # netLast.branches[j][Len(netLast.branches[j])]
    /\ \A p \in DOMAIN netLast.paths : NoRepeat(<<Self>> \o p) \/ p = <<>>

\* a graph in which a cycle leads back to this node and a node routes to itself
C36_Witness ==
  /\ netLast.op = "findPath"
  /\ InList(routes["p1"], Self) /\ InList(routes[Self], "p1")
  /\ InList(routes["p2"], "p2") /\ InList(routes[Self], "p2")
  /\ netLast.target = "p3"
  /\ Len(netLast.branches) = 3

\* C37: metrics.connectedPeers equals the number of entries of the peers map,
\* and is never negative
C37_CounterMatchesPeers ==
  /\ connectedPeers = Cardinality(DOMAIN peers)
  /\ connectedPeers >= 0

\* C38: when a peer id is connected on two sockets, the close event of one
\* socket does not remove the record, the route and the strength that the
\* other, open and handshaken connection relies on
Established(s) ==
  /\ sock[s].st = "open" /\ sock[s].stage = "done"
  /\ sock[s].peer \notin DOMAIN pendingHandshakes
  /\ Registered(sock[s].peer)

C38_OlderCloseKeepsNewer ==
  [][\A s, s2 \in Sockets :
       (/\ s # s2
        /\ sock[s].st # "closed" /\ sock'[s].st = "closed"
        /\ Established(s2))
         => LET p == sock[s2].peer
            IN  /\ p \in DOMAIN peers'
                /\ p \in DOMAIN entanglementStrength'
                /\ InList(routes'[Self], p)]_vars

\* C39: a heartbeat round attempts the pulse to every connected peer: a send
\* that raises is reported for its peer and for no other, the remaining peers
\* of the round are still sent to, and the timer of the rounds stays
C39_PulseFailureIsolated ==
  [][/\ (netLast' # netLast /\ netLast'.op = "pulse")
          => /\ netLast'.attempted = DOMAIN peers
             /\ netLast'.reported = netLast'.failed
             /\ "heartbeat" \in life'.timers
     /\ (ghostLast' # ghostLast /\ ghostLast'.op = "pulse")
          => /\ ghostLast'.sent = DOMAIN entanglements
             /\ ghostLast'.reported = ghostLast'.failed
             /\ "pulse" \in life'.timers]_vars

C39_Witness ==
  /\ netLast.op = "pulse"
  /\ netLast.reported # {}
  /\ netLast.attempted \ netLast.reported # {}
  /\ ghostLast.op = "pulse"
  /\ ghostLast.reported # {}
  /\ ghostLast.sent \ ghostLast.reported # {}

\* C40: with strengths and latencies unchanged, optimizeRoutes gives a
\* permutation of each route list, running it again changes nothing, and the
\* order it gives does not depend on the order the routes were stored in
SameRoutes(a, b) ==
  /\ Len(a) = Len(b)
  /\ \A x \in RoutePeers : InList(a, x) <=> InList(b, x)

C40_OptimizeIdempotentOrderFree ==
  netLast.op = "optimize" =>
    /\ SameRoutes(routes[Self], netLast.before[Self])
    /\ OptimizeRoutes(NetState).routes = routes
    /\ \A l \in RouteLists(Cardinality(RoutePeers)) :
         SameRoutes(l, routes[Self])
           => SortRoutes(entanglementStrength, l) = routes[Self]

====
